---------------------------- MODULE Spec2Model ----------------------------
(***************************************************************************)
(* Model of polyfem's RBFWithQuadratic basis builder (kernel evaluation,   *)
(* design matrix, constraint derivation, constrained least squares,        *)
(* evaluation) and of the ImplicitNewmark time integrator.                 *)
(*                                                                         *)
(* Numbers.  A C++ double is modelled as a pair <<n, d>>:                  *)
(*   d > 0        the rational n/d in lowest terms,                        *)
(*   <<0, 0>>     NaN,   <<1, 0>> +Inf,   <<-1, 0>> -Inf.                  *)
(* Arithmetic on finite values is exact; the IEEE rules for 0/0, x/0 and   *)
(* NaN propagation are kept.  The two irrational library functions, the    *)
(* Euclidean norm and log, are rounded to the resolution of the length     *)
(* unit (one unit = 5e-9, so that the cutoff 1e-8 of the kernels is 2).    *)
(***************************************************************************)
EXTENDS Integers, Sequences, FiniteSets, TLC

(***************************************************************************)
(* Bounds of the model.                                                    *)
(***************************************************************************)
\* ldlt().solve() results are drawn from MaxSolve + 1 candidate matrices.
MaxSolve == 2
\* Largest distance handed to kernel / kernel_prime in SpecKernel.
MaxR == 60
\* Number of update_quantities calls in a run of SpecNewmark.
MaxSteps == 2
\* Quadrature rules of SpecConstraints: two points with coordinates in
\* 0..MaxCoord, the first with a weight in 1..MaxWeight, the second 1.
MaxCoord == 1
MaxWeight == 2

(***************************************************************************)
(* Doubles.                                                                *)
(***************************************************************************)
RECURSIVE GCD(_, _)
GCD(a, b) == IF b = 0 THEN a ELSE GCD(b, a % b)

Abs(n) == IF n < 0 THEN -n ELSE n

Sign(n) == IF n < 0 THEN -1 ELSE IF n = 0 THEN 0 ELSE 1

NaN == <<0, 0>>

Zero == <<0, 1>>

One == <<1, 1>>

\* An int converted to double.
R(n) == <<n, 1>>

IsFinite(x) == x[2] # 0

IsNaN(x) == x = NaN

\* n/d in lowest terms, d > 0.
Frac(n, d) ==
    LET g == GCD(Abs(n), Abs(d))
        s == IF d < 0 THEN -1 ELSE 1
    IN  <<s * (n \div g), s * (d \div g)>>

Neg(x) == <<-x[1], x[2]>>

Add(x, y) ==
    IF IsFinite(x) /\ IsFinite(y)
    THEN IF x[1] = 0 THEN y
         ELSE IF y[1] = 0 THEN x
         ELSE LET g == GCD(x[2], y[2])
              IN  Frac(x[1] * (y[2] \div g) + y[1] * (x[2] \div g),
                       (x[2] \div g) * y[2])
    ELSE IF IsNaN(x) \/ IsNaN(y) THEN NaN
    ELSE IF IsFinite(x) THEN y
    ELSE IF IsFinite(y) THEN x
    ELSE IF x = y THEN x ELSE NaN        \* Inf - Inf

Sub(x, y) == Add(x, Neg(y))

Mul(x, y) ==
    IF IsFinite(x) /\ IsFinite(y)
    THEN IF x[1] = 0 \/ y[1] = 0 THEN Zero
         ELSE LET g1 == GCD(Abs(x[1]), y[2])
                  g2 == GCD(Abs(y[1]), x[2])
              IN  <<(x[1] \div g1) * (y[1] \div g2),
                    (x[2] \div g2) * (y[2] \div g1)>>
    ELSE IF IsNaN(x) \/ IsNaN(y) THEN NaN
    ELSE IF x[1] = 0 \/ y[1] = 0 THEN NaN    \* 0 * Inf
    ELSE <<Sign(x[1]) * Sign(y[1]), 0>>

\* IEEE division: 0/0 is NaN, x/0 is +-Inf.
Div(x, y) ==
    IF IsFinite(x) /\ IsFinite(y)
    THEN IF y[1] = 0 THEN (IF x[1] = 0 THEN NaN ELSE <<Sign(x[1]), 0>>)
         ELSE Mul(x, Frac(y[2], y[1]))
    ELSE IF IsNaN(x) \/ IsNaN(y) THEN NaN
    ELSE IF IsFinite(x) THEN Zero            \* x / Inf
    ELSE IF IsFinite(y) THEN <<x[1] * (IF y[1] < 0 THEN -1 ELSE 1), 0>>
    ELSE NaN                                 \* Inf / Inf

\* IEEE ==: a NaN equals nothing, itself included.
Eq(x, y) == ~IsNaN(x) /\ ~IsNaN(y) /\ x = y


(***************************************************************************)
(* Dense matrices (Eigen::MatrixXd): a sequence of rows, each a sequence   *)
(* of doubles.  The default-constructed 0 x 0 matrix is << >>.             *)
(***************************************************************************)
Rows(A) == Len(A)

Cols(A) == IF Len(A) = 0 THEN 0 ELSE Len(A[1])

\* The same sequence or matrix, tabulated: TLC then holds its entries
\* instead of the expression that computes them.
Vec(a) == a \o << >>

Mat(A) == Vec([i \in 1..Len(A) |-> Vec(A[i])])

Fill(n, m, x) == Mat([i \in 1..n |-> [j \in 1..m |-> x]])

\* A matrix of ints converted to doubles.
ToDouble(P) == Mat([i \in 1..Len(P) |-> [j \in 1..Len(P[i]) |-> R(P[i][j])]])

RECURSIVE DotFrom(_, _, _)
DotFrom(a, b, k) ==
    IF k > Len(a) THEN Zero
    ELSE IF k = Len(a) THEN Mul(a[k], b[k])
    ELSE Add(Mul(a[k], b[k]), DotFrom(a, b, k + 1))

Dot(a, b) == DotFrom(a, b, 1)

RECURSIVE SumFrom(_, _)
SumFrom(a, k) ==
    IF k > Len(a) THEN Zero
    ELSE IF k = Len(a) THEN a[k]
    ELSE Add(a[k], SumFrom(a, k + 1))

Sum(a) == SumFrom(a, 1)

Column(A, j) == Vec([i \in 1..Rows(A) |-> A[i][j]])

Transpose(A) == Mat([j \in 1..Cols(A) |-> [i \in 1..Rows(A) |-> A[i][j]]])

MatMul(A, B) ==
    LET Bt == Transpose(B)
    IN  Mat([i \in 1..Rows(A) |-> [j \in 1..Cols(B) |-> Dot(A[i], Bt[j])]])

MatAdd(A, B) ==
    Mat([i \in 1..Rows(A) |-> [j \in 1..Cols(A) |-> Add(A[i][j], B[i][j])]])

MatSub(A, B) ==
    Mat([i \in 1..Rows(A) |-> [j \in 1..Cols(A) |-> Sub(A[i][j], B[i][j])]])

\* A.topRows(k), A.bottomRows(k)
TopRows(A, k) == SubSeq(A, 1, k)

BottomRows(A, k) == SubSeq(A, Rows(A) - k + 1, Rows(A))

AllFinite(A) == \A i \in 1..Rows(A) : \A j \in 1..Cols(A) : IsFinite(A[i][j])

\* Entrywise IEEE equality of two matrices of the same shape.
MatEq(A, B) ==
    /\ Rows(A) = Rows(B)
    /\ Cols(A) = Cols(B)
    /\ \A i \in 1..Rows(A) : \A j \in 1..Cols(A) : Eq(A[i][j], B[i][j])

(***************************************************************************)
(* Eigen::FullPivLU of a square matrix M.  In exact arithmetic every       *)
(* pivoting order gives the same answers, so the decomposition is modelled *)
(* by Gauss-Jordan elimination of the augmented matrix [M | I]:            *)
(* isInvertible() is "every column has a pivot" and solve(B) is the        *)
(* unique X with M X = B, computed with IEEE propagation of NaN.           *)
(***************************************************************************)
RECURSIVE Eliminate(_, _, _)
Eliminate(Aug, c, n) ==
    IF c > n THEN [ok |-> TRUE, aug |-> Aug]
    ELSE LET cand == {r \in c..n : Aug[r][c] # Zero}
         IN  IF cand = {} THEN [ok |-> FALSE, aug |-> Aug]
             ELSE LET p    == CHOOSE r \in cand : \A q \in cand : r <= q
                      w    == Len(Aug[1])
                      piv  == Aug[p][c]
                      prow == Vec([k \in 1..w |-> Div(Aug[p][k], piv)])
                      src(r) == IF r = p THEN Aug[c] ELSE Aug[r]
                      nxt  == Mat([r \in 1..n |->
                                 IF r = c THEN prow
                                 ELSE LET f == src(r)[c]
                                      IN  [k \in 1..w |->
                                             IF k < c THEN src(r)[k]
                                             ELSE Sub(src(r)[k], Mul(f, prow[k]))]])
                  IN  Eliminate(nxt, c + 1, n)

Identity(n) == Mat([i \in 1..n |-> [j \in 1..n |-> IF i = j THEN One ELSE Zero]])

\* Eigen::FullPivLU<...> lu(M)
FullPivLU(M) ==
    LET n == Rows(M)
        e == Eliminate(Mat([i \in 1..n |-> M[i] \o Identity(n)[i]]), 1, n)
    IN  [isInvertible |-> e.ok,
         inverse |-> IF e.ok
                     THEN Mat([i \in 1..n |-> SubSeq(e.aug[i], n + 1, 2 * n)])
                     ELSE << >>]

\* lu.solve(B).  For a singular M Eigen returns a finite matrix that need
\* not solve anything; unspecified stands for its entries.
LuSolve(lu, B, unspecified) ==
    IF lu.isInvertible THEN MatMul(lu.inverse, B)
    ELSE Fill(Rows(B), Cols(B), unspecified)

(***************************************************************************)
(* Library functions on doubles.  Points have integral coordinates (in     *)
(* length units), so a distance is the rounded-down square root of an      *)
(* integer and log is rounded to the nearest half.                         *)
(***************************************************************************)
ISqrt(n) == CHOOSE k \in 0..n : k * k <= n /\ (k + 1) * (k + 1) > n

\* (a - b).norm() for two rows of ints of the same length.
RECURSIVE SqDistFrom(_, _, _)
SqDistFrom(a, b, k) ==
    IF k > Len(a) THEN 0
    ELSE (a[k] - b[k]) * (a[k] - b[k]) + SqDistFrom(a, b, k + 1)

Norm(a, b) == ISqrt(SqDistFrom(a, b, 1))

\* The least r at which round(2 ln r) reaches 1, 2, 3, ...
LogSteps == <<2, 3, 4, 6, 10, 16, 26, 43, 71, 116>>

\* std::log of a nonnegative integral double.
Log(r) ==
    IF r = 0 THEN <<-1, 0>>
    ELSE Frac(Cardinality({k \in 1..Len(LogSteps) : LogSteps[k] <= r}), 2)

(***************************************************************************)
(* Harmonic kernel.  r is a distance in length units; the cutoff 1e-8 of   *)
(* the source is KernelCutoff units.                                       *)
(***************************************************************************)
KernelCutoff == 2

kernel_mut(is_volume, r) ==
    IF r <= 0 THEN Zero
    ELSE IF is_volume THEN Div(One, R(r)) ELSE Log(r)

kernel(is_volume, r) ==
    IF r < KernelCutoff THEN Zero
    ELSE IF is_volume THEN Div(One, R(r)) ELSE Log(r)

kernel_prime(is_volume, r) ==
    IF r < KernelCutoff THEN Zero
    ELSE IF is_volume THEN Div(R(-1), Mul(R(r), R(r))) ELSE Div(One, R(r))

(***************************************************************************)
(* The basis instance: centers_ is fixed by the constructor.               *)
(***************************************************************************)
\* is_volume() of an instance with the given centers.
is_volume(centers) == Cols(centers) = 3

\* const int dim = (is_volume() ? 3 : 2);
Dim(centers) == IF is_volume(centers) THEN 3 ELSE 2

\* #kernels + 1 + dim + dim*(dim+1)/2
NumTerms(num_kernels, dim) == num_kernels + 1 + dim + (dim * (dim + 1)) \div 2

\* The content of a matrix entry that resize() allocated and nothing wrote.
Indeterminate == <<1, -1>>

(***************************************************************************)
(* Writing a block of columns.  A matrix under construction is a record    *)
(* [A, written]: written[c] collects the terms that assigned column c.     *)
(* first is the 0-based start column of middleCols(first, k).              *)
(***************************************************************************)
Resize(n, m, x) == [A |-> Fill(n, m, x), written |-> Vec([c \in 1..m |-> {}])]

AssignCols(st, first, B, term) ==
    LET k == Cols(B)
        hit(c) == c - 1 >= first /\ c - 1 < first + k
    IN  [A |-> Mat([i \in 1..Rows(st.A) |-> [c \in 1..Cols(st.A) |->
                      IF hit(c) THEN B[i][c - first] ELSE st.A[i][c]]]),
         written |-> Vec([c \in 1..Cols(st.A) |->
                      IF hit(c) THEN st.written[c] \cup {term} ELSE st.written[c]])]

\* One column, as a matrix: row i holds col[i].
ColOf(col) == Vec([i \in 1..Len(col) |-> <<col[i]>>])

\* The eigen size checks of compute_kernels_matrix / bases_grads: samples
\* and centers_ rows subtract, and samples fills the dim linear columns.
SamplesDimOK(centers, samples) ==
    /\ Cols(samples) = Cols(centers)
    /\ Cols(samples) = Dim(centers)

RECURSIVE KernelCols(_, _, _, _)
KernelCols(st, centers, samples, j) ==
    IF j >= Rows(centers) THEN st
    ELSE KernelCols(
            AssignCols(st, j,
                ColOf([i \in 1..Rows(samples) |-> kernel(is_volume(centers),
                                        Norm(samples[i], centers[j + 1]))]),
                "kernel"),
            centers, samples, j + 1)

\* Start column of the mixed terms: A.middleCols(num_kernels + dim + 1, ..)
MixedStart_mut(num_kernels, dim) == num_kernels + dim

MixedStart(num_kernels, dim) == num_kernels + dim + 1

compute_kernels_matrix(centers, samples) ==
    LET num_kernels == Rows(centers)
        dim == Dim(centers)
        n   == Rows(samples)
        S   == ToDouble(samples)
        width == NumTerms(num_kernels, dim)
        a0 == Resize(n, width, Indeterminate)
        a1 == KernelCols(a0, centers, samples, 0)
        a2 == AssignCols(a1, num_kernels, ColOf([i \in 1..n |-> One]), "constant")
        a3 == AssignCols(a2, num_kernels + 1, S, "linear")
        a4 == IF dim = 2
              THEN AssignCols(a3, MixedStart(num_kernels, dim),
                       ColOf([i \in 1..n |-> Mul(S[i][1], S[i][2])]), "mixed")
              ELSE LET m0 == AssignCols(a3, MixedStart(num_kernels, dim), S, "mixed")
                       mc(st, k, other) ==
                           AssignCols(st, MixedStart(num_kernels, dim) + k,
                               ColOf([i \in 1..n |-> Mul(st.A[i][MixedStart(num_kernels, dim) + k + 1],
                                       S[i][other + 1])]),
                               "mixed")
                   IN  mc(mc(mc(m0, 0, 1), 1, 2), 2, 0)
        a5 == AssignCols(a4, width - dim,
                  Mat([i \in 1..n |-> [d \in 1..dim |-> Mul(S[i][d], S[i][d])]]),
                  "quadratic")
    IN  a5

(***************************************************************************)
(* bases_grads: the design matrix differentiated along axis (0-based).     *)
(***************************************************************************)
RECURSIVE GradKernelCols(_, _, _, _, _)
GradKernelCols(st, centers, samples, axis, j) ==
    IF j >= Rows(centers) THEN st
    ELSE GradKernelCols(
            AssignCols(st, j,
                ColOf([i \in 1..Rows(samples) |-> LET x == Norm(samples[i], centers[j + 1])
                    IN  Mul(R(samples[i][axis + 1] - centers[j + 1][axis + 1]),
                            Div(kernel_prime(is_volume(centers), x), R(x)))]),
                "kernel"),
            centers, samples, axis, j + 1)

bases_grads_matrix_mut(centers, samples, axis) ==
    LET num_kernels == Rows(centers)
        dim == Dim(centers)
        n   == Rows(samples)
        S   == ToDouble(samples)
        width == NumTerms(num_kernels, dim)
        col(k) == ColOf([i \in 1..n |-> S[i][k + 1]])
        a0 == Resize(n, width, Zero)
        a1 == GradKernelCols(a0, centers, samples, axis, 0)
        a2 == AssignCols(a1, num_kernels + 1 + axis, ColOf([i \in 1..n |-> One]), "linear")
        a3 == IF dim = 2
              THEN AssignCols(a2, num_kernels + 1 + dim, col(1 - axis), "mixed")
              ELSE AssignCols(
                     AssignCols(a2, num_kernels + 1 + dim + axis,
                                col((axis + 1) % dim), "mixed"),
                     num_kernels + 1 + dim + ((axis + 2) % dim),
                     col((axis + 2) % dim), "mixed")
        a4 == AssignCols(a3, (width - dim) + axis,
                  ColOf([i \in 1..n |-> S[i][axis + 1]]), "quadratic")
    IN  a4

bases_grads_matrix(centers, samples, axis) ==
    LET num_kernels == Rows(centers)
        dim == Dim(centers)
        n   == Rows(samples)
        S   == ToDouble(samples)
        width == NumTerms(num_kernels, dim)
        col(k) == ColOf([i \in 1..n |-> S[i][k + 1]])
        a0 == Resize(n, width, Zero)
        a1 == GradKernelCols(a0, centers, samples, axis, 0)
        a2 == AssignCols(a1, num_kernels + 1 + axis, ColOf([i \in 1..n |-> One]), "linear")
        a3 == IF dim = 2
              THEN AssignCols(a2, num_kernels + 1 + dim, col(1 - axis), "mixed")
              ELSE AssignCols(
                     AssignCols(a2, num_kernels + 1 + dim + axis,
                                col((axis + 1) % dim), "mixed"),
                     num_kernels + 1 + dim + ((axis + 2) % dim),
                     col((axis + 2) % dim), "mixed")
        a4 == AssignCols(a3, (width - dim) + axis,
                  ColOf([i \in 1..n |-> Mul(R(2), S[i][axis + 1])]), "quadratic")
    IN  a4

(***************************************************************************)
(* Constraint derivation.  quadr is [points, weights]: points a matrix of  *)
(* ints, weights a sequence of ints.  Kernel and quadrature indices are    *)
(* 1-based here.                                                           *)
(***************************************************************************)
\* gradPhi = p * kernel_prime(is_volume(), r) / r * quadr.weights(q)
gradPhi(centers, quadr, j, q) ==
    LET r  == Norm(quadr.points[q], centers[j])
        kp == kernel_prime(is_volume(centers), r)
    IN  Vec([a \in 1..Cols(centers) |->
            Mul(Div(Mul(R(quadr.points[q][a] - centers[j][a]), kp), R(r)),
                R(quadr.weights[q]))])

\* Sum over the quadrature points of f(q).
QuadSum(terms) == Sum(Vec(terms))

\* K_cst = int psi_k
K_cst(centers, quadr) ==
    Vec([j \in 1..Rows(centers) |->
        QuadSum([q \in 1..Rows(quadr.points) |-> Mul(kernel(is_volume(centers), Norm(quadr.points[q], centers[j])),
                R(quadr.weights[q]))])])

\* K_lin = int grad_a(psi_k)
K_lin(centers, quadr) ==
    Mat([j \in 1..Rows(centers) |-> [a \in 1..Cols(centers) |->
        QuadSum([q \in 1..Rows(quadr.points) |-> gradPhi(centers, quadr, j, q)[a]])]])

\* K_sqr = int x_a grad_a(psi_k)
K_sqr(centers, quadr) ==
    Mat([j \in 1..Rows(centers) |-> [a \in 1..Cols(centers) |->
        QuadSum([q \in 1..Rows(quadr.points) |-> Mul(R(quadr.points[q][a]), gradPhi(centers, quadr, j, q)[a])])]])

\* 2D: K_mix(j,0) = int y grad_x(psi_k), K_mix(j,1) = int x grad_y(psi_k)
K_mix_2d(centers, quadr) ==
    Mat([j \in 1..Rows(centers) |->
        << QuadSum([q \in 1..Rows(quadr.points) |-> Mul(R(quadr.points[q][2]), gradPhi(centers, quadr, j, q)[1])]),
           QuadSum([q \in 1..Rows(quadr.points) |-> Mul(R(quadr.points[q][1]), gradPhi(centers, quadr, j, q)[2])]) >>])

K_mix_3d_mut(centers, quadr) ==
    Mat([j \in 1..Rows(centers) |-> [d \in 1..3 |->
        QuadSum([q \in 1..Rows(quadr.points) |-> LET g == gradPhi(centers, quadr, j, q)
                e == (d % 3) + 1
            IN  Mul(R(quadr.points[q][e]), g[d])])]])

\* 3D: K_mix(j,d) = int (x_{d+1} grad_d(psi_k) + x_d grad_{d+1}(psi_k))
K_mix_3d(centers, quadr) ==
    Mat([j \in 1..Rows(centers) |-> [d \in 1..3 |->
        QuadSum([q \in 1..Rows(quadr.points) |-> LET g == gradPhi(centers, quadr, j, q)
                e == (d % 3) + 1
            IN  Add(Mul(R(quadr.points[q][e]), g[d]),
                    Mul(R(quadr.points[q][d]), g[e]))])]])

\* Polynomial moments, as ints: I_lin(a) = int x_a, I_sqr(a) = int x_a^2,
\* I_mix(a) = int x_a x_{a+1}, volume = int 1.
RECURSIVE ISum(_, _)
ISum(a, k) == IF k > Len(a) THEN 0 ELSE a[k] + ISum(a, k + 1)

I_lin(quadr, a) ==
    ISum([q \in 1..Rows(quadr.points) |-> quadr.points[q][a] * quadr.weights[q]], 1)

I_sqr(quadr, a) ==
    ISum([q \in 1..Rows(quadr.points) |->
            quadr.points[q][a] * quadr.points[q][a] * quadr.weights[q]], 1)

I_mix(quadr, a, e) ==
    ISum([q \in 1..Rows(quadr.points) |->
            quadr.points[q][a] * quadr.points[q][e] * quadr.weights[q]], 1)

Volume(quadr) == ISum(quadr.weights, 1)

M_2d_mut(quadr) ==
    LET v  == Volume(quadr)
        l0 == I_lin(quadr, 1)
        l1 == I_lin(quadr, 2)
        s0 == I_sqr(quadr, 1)
        s1 == I_sqr(quadr, 2)
        m0 == I_mix(quadr, 1, 2)
    IN  ToDouble(<<
          <<    v,      0,      l1, 2 * l0,      0 >>,
          <<    0,      v,      l0,      0, 2 * l1 >>,
          <<   l1,     l0, s0 + s1, 4 * m0, 2 * m0 >>,
          << 4 * l0, 2 * l1, 4 * m0, 6 * s0, 2 * s1 >>,
          << 2 * l0, 4 * l1, 4 * m0, 2 * s0, 6 * s1 >> >>)

\* Eigen::Matrix<double, 5, 5> M of compute_constraints_matrix_2d
M_2d(quadr) ==
    LET v  == Volume(quadr)
        l0 == I_lin(quadr, 1)
        l1 == I_lin(quadr, 2)
        s0 == I_sqr(quadr, 1)
        s1 == I_sqr(quadr, 2)
        m0 == I_mix(quadr, 1, 2)
    IN  ToDouble(<<
          <<    v,      0,      l1, 2 * l0,      0 >>,
          <<    0,      v,      l0,      0, 2 * l1 >>,
          <<   l1,     l0, s0 + s1, 2 * m0, 2 * m0 >>,
          << 4 * l0, 2 * l1, 4 * m0, 6 * s0, 2 * s1 >>,
          << 2 * l0, 4 * l1, 4 * m0, 2 * s0, 6 * s1 >> >>)

\* Eigen::Matrix<double, 9, 9> M of compute_constraints_matrix_3d, with
\* M.bottomRows(dim).rowwise() += 2.0 * M_rhs applied.
M_3d(quadr) ==
    LET v  == Volume(quadr)
        l0 == I_lin(quadr, 1)
        l1 == I_lin(quadr, 2)
        l2 == I_lin(quadr, 3)
        s0 == I_sqr(quadr, 1)
        s1 == I_sqr(quadr, 2)
        s2 == I_sqr(quadr, 3)
        m0 == I_mix(quadr, 1, 2)
        m1 == I_mix(quadr, 2, 3)
        m2 == I_mix(quadr, 3, 1)
        M0 == <<
          <<  v,  0,  0,      l1,       0,      l2, 2 * l0,      0,      0 >>,
          <<  0,  v,  0,      l0,      l2,       0,      0, 2 * l1,      0 >>,
          <<  0,  0,  v,       0,      l1,      l0,      0,      0, 2 * l2 >>,
          << l1, l0,  0, s0 + s1,      m2,      m1, 2 * m0, 2 * m0,      0 >>,
          <<  0, l2, l1,      m2, s1 + s2,      m0,      0, 2 * m1, 2 * m1 >>,
          << l2,  0, l0,      m1,      m0, s2 + s0, 2 * m2,      0, 2 * m2 >>,
          << 2 * l0, 0, 0, 2 * m0,      0, 2 * m2, 4 * s0,      0,      0 >>,
          << 0, 2 * l1, 0, 2 * m0, 2 * m1,      0,      0, 4 * s1,      0 >>,
          << 0, 0, 2 * l2,      0, 2 * m1, 2 * m2,      0,      0, 4 * s2 >> >>
        M_rhs == << l0, l1, l2, m0, m1, m2, s0, s1, s2 >>
    IN  ToDouble(Mat([i \in 1..9 |-> [j \in 1..9 |->
            IF i > 6 THEN M0[i][j] + 2 * M_rhs[j] ELSE M0[i][j]]]))

\* The constraint matrix of the derivation that compute_weights dispatches to.
ConstraintM(centers, quadr) ==
    IF is_volume(centers) THEN M_3d(quadr) ELSE M_2d(quadr)

\* Number of polynomial-coefficient rows (5 in 2D, 9 in 3D).
NumPoly(centers) == IF is_volume(centers) THEN 9 ELSE 5

\* The rows num_kernels + 1 .. of L as assembled before lu.solve (L-tilde):
\* one row per polynomial coefficient, one column per kernel plus the
\* constant column.
Ltilde_2d(centers, quadr) ==
    LET nk == Rows(centers)
        kc == K_cst(centers, quadr)
        kl == K_lin(centers, quadr)
        km == K_mix_2d(centers, quadr)
        ks == K_sqr(centers, quadr)
        vol == R(Volume(quadr))
    IN  Mat([i \in 1..5 |-> [j \in 1..(nk + 1) |->
            IF j <= nk
            THEN IF i <= 2 THEN Neg(kl[j][i])
                 ELSE IF i = 3 THEN Neg(Add(km[j][1], km[j][2]))
                 ELSE Mul(R(-2), Add(ks[j][i - 3], kc[j]))
            ELSE IF i > 3 THEN Mul(R(-2), vol) ELSE Zero]])

Ltilde_3d(centers, quadr) ==
    LET nk == Rows(centers)
        kc == K_cst(centers, quadr)
        kl == K_lin(centers, quadr)
        km == K_mix_3d(centers, quadr)
        ks == K_sqr(centers, quadr)
        vol == R(Volume(quadr))
    IN  Mat([i \in 1..9 |-> [j \in 1..(nk + 1) |->
            IF j <= nk
            THEN IF i <= 3 THEN Neg(kl[j][i])
                 ELSE IF i <= 6 THEN Neg(km[j][i - 3])
                 ELSE Mul(R(-2), Add(ks[j][i - 6], kc[j]))
            ELSE IF i > 6 THEN Mul(R(-2), vol) ELSE Zero]])

Ltilde(centers, quadr) ==
    IF is_volume(centers) THEN Ltilde_3d(centers, quadr)
    ELSE Ltilde_2d(centers, quadr)

ComputeL_mut(centers, quadr, lu, unspecified) ==
    LET nk == Rows(centers)
        rows == NumTerms(nk, Cols(centers))
        sol == LuSolve(lu, Ltilde(centers, quadr), unspecified)
    IN  Mat([i \in 1..rows |-> [j \in 1..nk |->
            IF i <= nk + 1 THEN (IF i = j THEN One ELSE Zero)
            ELSE sol[i - (nk + 1)][j]]])

\* // Compute L: resize, setZero, diagonal ones, the blocks, then
\* L.block(num_kernels + 1, 0, np, num_kernels + 1) = lu.solve(that block).
ComputeL(centers, quadr, lu, unspecified) ==
    LET nk == Rows(centers)
        dim == Cols(centers)
        np == NumPoly(centers)
        rows == NumTerms(nk, dim)
        sol == LuSolve(lu, Ltilde(centers, quadr), unspecified)
    IN  Mat([i \in 1..rows |-> [j \in 1..(nk + 1) |->
            IF i <= nk + 1 THEN (IF i = j THEN One ELSE Zero)
            ELSE sol[i - (nk + 1)][j]]])

\* // Compute t, the last four statements of the derivation.  t is the
\* caller's matrix; this_weights is the instance's weights_ when the call
\* starts and t_is_weights tells whether t is that same object.
ComputeT_mut(rows, np, num_bases, local_basis_integral, lu, unspecified, this_weights, t_is_weights) ==
    LET t1 == Fill(rows, num_bases, Zero)
    IN  Mat([i \in 1..rows |-> IF i <= rows - np THEN t1[i]
                           ELSE Transpose(local_basis_integral)[i - (rows - np)]])

ComputeT(rows, np, num_bases, local_basis_integral, lu, unspecified, this_weights, t_is_weights) ==
    LET t1 == Fill(rows, num_bases, Zero)                   \* resize, setZero
        t2 == Mat([i \in 1..rows |-> IF i <= rows - np THEN t1[i]
                     ELSE Transpose(local_basis_integral)[i - (rows - np)]])
        w  == IF t_is_weights THEN t2 ELSE this_weights     \* weights_ now
        sol == LuSolve(lu, BottomRows(w, np), unspecified)
    IN  Mat([i \in 1..rows |-> IF i <= rows - np THEN t2[i]
                               ELSE sol[i - (rows - np)]])

(***************************************************************************)
(* Eigen::LDLT of the normal equations.  The factorization is library      *)
(* code: what it reports (info()) is an input of the behaviour, and what   *)
(* solve() returns is any n x m matrix out of a few candidates; when an    *)
(* operand holds a NaN, so does every entry of the solution.               *)
(***************************************************************************)
LdltSolve(n, m, operands_finite) ==
    IF operands_finite
    THEN {Mat([i \in 1..n |-> [j \in 1..m |-> R(c * i - j)]]) : c \in 0..MaxSolve}
    ELSE {Fill(n, m, NaN)}

(***************************************************************************)
(* Constructor arguments.  Each case is one element: the kernel centers,   *)
(* the collocation points, the quadrature rule, the right-hand side (one   *)
(* column per basis) and the local basis integrals (one row per basis).    *)
(***************************************************************************)
Rhs1 == << <<1>>, <<0>>, <<2>> >>

Rhs2 == << <<1, 0>>, <<0, 1>>, <<0, 0>> >>

Colloc2 == << <<0, 3>>, <<4, 3>>, <<2, 0>> >>

Colloc3 == << <<3, 3, 0>>, <<0, 3, 3>>, <<3, 3, 3>> >>

Quad2 == [points |-> << <<1, 1>>, <<1, 2>> >>, weights |-> <<1, 1>>]

Quad3 == [points |-> << <<0, 0, 1>>, <<0, 1, 1>>, <<1, 0, 1>> >>,
          weights |-> <<1, 1, 1>>]

Lbi5 == << <<1, 0, 2, 0, 1>>, <<0, 0, 0, 0, 0>> >>

Lbi9 == << <<1, 0, 0, 2, 0, 0, 0, 1, 0>> >>

Cases ==
    { \* a 2D element, two kernels, two bases
      [centers |-> << <<0, 0>>, <<4, 0>> >>, samples |-> Colloc2,
       quadr |-> Quad2, rhs |-> Rhs2, lbi |-> Lbi5],
      \* 2D, unequal quadrature weights, one basis
      [centers |-> << <<0, 0>>, <<4, 0>> >>, samples |-> Colloc2,
       quadr |-> [points |-> Quad2.points, weights |-> <<1, 2>>],
       rhs |-> Rhs1, lbi |-> << <<0, 1, 0, 0, 3>> >>],
      \* 2D, the second quadrature point is the first kernel center
      [centers |-> << <<1, 2>>, <<4, 0>> >>, samples |-> Colloc2,
       quadr |-> Quad2, rhs |-> Rhs2, lbi |-> Lbi5],
      \* 2D, a one-point quadrature rule: M is singular
      [centers |-> << <<0, 0>>, <<4, 0>> >>, samples |-> Colloc2,
       quadr |-> [points |-> << <<1, 1>> >>, weights |-> <<2>>],
       rhs |-> Rhs2, lbi |-> Lbi5],
      \* a 3D element, one kernel, one basis
      [centers |-> << <<3, 3, 3>> >>, samples |-> Colloc3,
       quadr |-> Quad3, rhs |-> Rhs1, lbi |-> Lbi9],
      \* 3D, a one-point quadrature rule: M is singular
      [centers |-> << <<3, 3, 3>> >>, samples |-> Colloc3,
       quadr |-> [points |-> << <<1, 1, 1>> >>, weights |-> <<1>>],
       rhs |-> Rhs1, lbi |-> Lbi9],
      \* centers in dimension 4 (everything else in dimension 4 too)
      [centers |-> << <<0, 0, 0, 0>> >>,
       samples |-> << <<0, 3, 0, 0>>, <<4, 3, 0, 0>>, <<2, 0, 0, 0>> >>,
       quadr |-> [points |-> << <<1, 1, 0, 0>>, <<1, 2, 0, 0>> >>,
                  weights |-> <<1, 1>>],
       rhs |-> Rhs1, lbi |-> << <<1, 0, 2, 0, 1>> >>],
      \* centers in dimension 1
      [centers |-> << <<0>>, <<4>> >>,
       samples |-> << <<3>>, <<5>>, <<2>> >>,
       quadr |-> [points |-> << <<1>>, <<2>> >>, weights |-> <<1, 1>>],
       rhs |-> Rhs1, lbi |-> << <<1, 0, 2, 0, 1>> >>],
      \* 2D centers, 3D collocation points
      [centers |-> << <<0, 0>>, <<4, 0>> >>, samples |-> Colloc3,
       quadr |-> Quad2, rhs |-> Rhs1, lbi |-> << <<1, 0, 2, 0, 1>> >>],
      \* 2D centers and collocation points, 3D quadrature points
      [centers |-> << <<0, 0>>, <<4, 0>> >>, samples |-> Colloc2,
       quadr |-> Quad3, rhs |-> Rhs1, lbi |-> << <<1, 0, 2, 0, 1>> >>] }

\* Query points handed to basis() and grad(), by dimension: a kernel center
\* of the cases above, a point closer to it than the cutoff, a point away
\* from every center.
EvalSamples(dim) ==
    IF dim = 2 THEN { << <<0, 0>>, <<1, 0>>, <<2, 3>> >> }
    ELSE { << <<3, 3, 3>>, <<3, 3, 2>>, <<1, 2, 4>> >> }

(***************************************************************************)
(* State.                                                                  *)
(***************************************************************************)
VARIABLES
    build,      \* "debug": assert and eigen_assert are compiled in; "release": NDEBUG
    centers_,   \* the member centers_
    args,       \* the constructor's arguments [samples, quadr, rhs, lbi, with_constraints]
    ldlt_info,  \* what ldlt().info() reports for this element
    pc,         \* "new", "derived" (L and t computed), "constructed", "aborted", "crashed"
    weights_,   \* the member weights_
    L,          \* compute_weights' local L
    b,          \* compute_weights' local b
    v,          \* what ldlt.solve returned in compute_weights
    design,     \* the last compute_kernels_matrix call: [samples, m]
    log,        \* messages given to logger() at warning level or above
    ub,         \* the run has executed undefined behaviour
    call,       \* the last evaluation call and its result
    newmark     \* the ImplicitNewmark object [beta_, gamma_, dt, x_prev, v_prev, a_prev, steps]

vars == <<build, centers_, args, ldlt_info, pc, weights_, L, b, v, design,
          log, ub, call, newmark>>

NoCall == [op |-> "none"]

\* The time integrator of a run that does not use one.
NoIntegrator == [steps |-> 0]

NoDesign == [samples |-> << >>, m |-> [A |-> << >>, written |-> << >>]]

Init ==
    /\ build \in {"debug", "release"}
    /\ \E c \in Cases, wc \in BOOLEAN :
          /\ centers_ = c.centers
          /\ args = [samples |-> c.samples, quadr |-> c.quadr, rhs |-> c.rhs,
                     lbi |-> c.lbi, with_constraints |-> wc]
    /\ ldlt_info \in {"Success", "NumericalIssue"}
    /\ pc = "new"
    /\ weights_ = << >>
    /\ L = << >>
    /\ b = << >>
    /\ v = << >>
    /\ design = NoDesign
    /\ log = << >>
    /\ ub = FALSE
    /\ call = NoCall
    /\ newmark = NoIntegrator

(***************************************************************************)
(* compute_weights, called by the constructor.                             *)
(***************************************************************************)
\* The size checks (eigen_assert) and asserts on the way to lu: those of
\* compute_kernels_matrix, then assert(dim == 2) or assert(dim == 3) and
\* assert(local_basis_integral.cols() == 9), then the row subtraction
\* quadr.points.row(q) - centers_.row(j).
SizesOK ==
    /\ SamplesDimOK(centers_, args.samples)
    /\ args.with_constraints =>
          /\ Cols(centers_) = Dim(centers_)
          /\ is_volume(centers_) => Cols(args.lbi) = 9
          /\ Cols(args.quadr.points) = Cols(centers_)

\* FullPivLU of the constraint matrix of this element.
ElementLU == FullPivLU(ConstraintM(centers_, args.quadr))

\* The unconstrained path of compute_weights (no check of ldlt().info()).
ConstructUnconstrained ==
    /\ pc = "new"
    /\ ~args.with_constraints
    /\ SizesOK
    /\ LET m == compute_kernels_matrix(centers_, args.samples)
       IN  /\ design' = [samples |-> args.samples, m |-> m]
           /\ \E x \in LdltSolve(Cols(m.A), Cols(args.rhs), TRUE) :
                 /\ v' = x
                 /\ weights_' = x
    /\ pc' = "constructed"
    /\ UNCHANGED newmark
    /\ UNCHANGED <<build, centers_, args, ldlt_info, L, b, log, ub, call>>

\* The constrained path up to and including the constraint derivation:
\* A, then compute_constraints_matrix_2d/3d(num_bases, quadr,
\* local_basis_integral, L, weights_).  In a release build the assert on
\* lu.isInvertible() is compiled out and the derivation goes on.
DeriveConstraints ==
    /\ pc = "new"
    /\ args.with_constraints
    /\ SizesOK
    /\ LET lu == ElementLU
           nk == Rows(centers_)
           rows == NumTerms(nk, Cols(centers_))
       IN  /\ lu.isInvertible \/ build = "release"
           /\ \E u \in (IF lu.isInvertible THEN {Zero} ELSE {Zero, One}) :
                 /\ L' = ComputeL(centers_, args.quadr, lu, u)
                 /\ weights_' = ComputeT(rows, NumPoly(centers_), Cols(args.rhs),
                                         ToDouble(args.lbi), lu, u, weights_, TRUE)
    /\ design' = [samples |-> args.samples,
                  m |-> compute_kernels_matrix(centers_, args.samples)]
    /\ pc' = "derived"
    /\ UNCHANGED newmark
    /\ UNCHANGED <<build, centers_, args, ldlt_info, b, v, log, ub, call>>

\* The rest of the constrained path: b = rhs - A t, the factorization, the
\* warning, weights_ += L * ldlt.solve(...).
SolveConstrained ==
    /\ pc = "derived"
    /\ LET bb == MatSub(ToDouble(args.rhs), MatMul(design.m.A, weights_))
       IN  /\ b' = bb
           /\ \E x \in LdltSolve(Cols(L), Cols(bb), AllFinite(L) /\ AllFinite(bb)) :
                 /\ v' = x
                 /\ weights_' = MatAdd(weights_, MatMul(L, x))
    /\ log' = IF ldlt_info = "NumericalIssue"
              THEN Append(log, "-- WARNING: Numerical issues when solving the harmonic least square.")
              ELSE log
    /\ pc' = "constructed"
    /\ UNCHANGED newmark
    /\ UNCHANGED <<build, centers_, args, ldlt_info, L, design, ub, call>>

\* Debug build: a failed assert or eigen_assert aborts the process.
AssertFails ==
    /\ pc = "new"
    /\ build = "debug"
    /\ IF SizesOK THEN args.with_constraints /\ ~ElementLU.isInvertible
                  ELSE TRUE
    /\ pc' = "aborted"
    /\ UNCHANGED newmark
    /\ UNCHANGED <<build, centers_, args, ldlt_info, weights_, L, b, v, design,
                   log, ub, call>>

\* Release build: a block assignment or row subtraction of mismatching
\* sizes is undefined behaviour; the constructor may crash or return, with
\* weights_ empty or holding anything.
UndefinedBehaviour ==
    /\ pc = "new"
    /\ build = "release"
    /\ ~SizesOK
    /\ ub' = TRUE
    /\ pc' \in {"crashed", "constructed"}
    /\ weights_' \in {<< >>, Fill(NumTerms(Rows(centers_), Dim(centers_)),
                                  Cols(args.rhs), NaN)}
    /\ UNCHANGED newmark
    /\ UNCHANGED <<build, centers_, args, ldlt_info, L, b, v, design, log, call>>

(***************************************************************************)
(* Evaluation: basis() and grad() on a constructed instance.               *)
(***************************************************************************)
Basis_mut ==
    /\ pc = "constructed"
    /\ ~ub
    /\ \E local_index \in 0..(Cols(weights_) - 1),
          samples \in EvalSamples(Dim(centers_)) :
          LET m   == compute_kernels_matrix(centers_, samples)
              tmp == MatMul(m.A, weights_)
          IN  /\ design' = [samples |-> samples, m |-> m]
              /\ weights_' = tmp
              /\ call' = [op |-> "basis", local_index |-> local_index,
                          samples |-> samples, val |-> Column(tmp, local_index + 1)]
    /\ UNCHANGED newmark
    /\ UNCHANGED <<build, centers_, args, ldlt_info, pc, L, b, v, log, ub>>

\* basis(local_index, samples, val): bases_values(samples, tmp), that is
\* tmp = A * weights_, then val = tmp.col(local_index).
Basis ==
    /\ pc = "constructed"
    /\ ~ub
    /\ \E local_index \in 0..(Cols(weights_) - 1),
          samples \in EvalSamples(Dim(centers_)) :
          LET m   == compute_kernels_matrix(centers_, samples)
              tmp == MatMul(m.A, weights_)
          IN  /\ design' = [samples |-> samples, m |-> m]
              /\ call' = [op |-> "basis", local_index |-> local_index,
                          samples |-> samples, val |-> Column(tmp, local_index + 1)]
    /\ UNCHANGED newmark
    /\ UNCHANGED <<build, centers_, args, ldlt_info, pc, weights_, L, b, v,
                   log, ub>>

\* grad(local_index, samples, val): for each axis d, bases_grads(d, samples,
\* tmp), that is tmp = A_prime * weights_, then val.col(d) = tmp.col(local_index).
Grad ==
    /\ pc = "constructed"
    /\ ~ub
    /\ \E local_index \in 0..(Cols(weights_) - 1),
          samples \in EvalSamples(Dim(centers_)) :
          LET dim == Cols(centers_)
              Ap  == Vec([d \in 1..dim |->
                            bases_grads_matrix(centers_, samples, d - 1)])
              tmp == Vec([d \in 1..dim |-> MatMul(Ap[d].A, weights_)])
          IN  call' = [op |-> "grad", local_index |-> local_index,
                       samples |-> samples,
                       A_prime |-> Ap,
                       val |-> Mat([i \in 1..Rows(samples) |-> [d \in 1..dim |->
                                      tmp[d][i][local_index + 1]]])]
    /\ UNCHANGED newmark
    /\ UNCHANGED <<build, centers_, args, ldlt_info, pc, weights_, L, b, v,
                   design, log, ub>>

Next ==
    \/ ConstructUnconstrained
    \/ DeriveConstraints
    \/ SolveConstrained
    \/ AssertFails
    \/ UndefinedBehaviour
    \/ Basis
    \/ Grad

Spec == Init /\ [][Next]_vars

(***************************************************************************)
(* The kernels on their own: kernel and kernel_prime applied to every      *)
(* distance 0..MaxR for both values of is_volume.                          *)
(***************************************************************************)
EvalKernel(vol, r) ==
    /\ call' = [op |-> "kernel", is_volume |-> vol, r |-> r,
                val |-> kernel(vol, r), prime |-> kernel_prime(vol, r)]
    /\ UNCHANGED newmark
    /\ UNCHANGED <<build, centers_, args, ldlt_info, pc, weights_, L, b, v,
                   design, log, ub>>

InitKernel ==
    /\ build = "release"
    /\ centers_ = << <<0, 0>>, <<4, 0>> >>
    /\ args = [samples |-> Colloc2, quadr |-> Quad2, rhs |-> Rhs2,
               lbi |-> Lbi5, with_constraints |-> FALSE]
    /\ ldlt_info = "Success"
    /\ pc = "new"
    /\ weights_ = << >>
    /\ L = << >>
    /\ b = << >>
    /\ v = << >>
    /\ design = NoDesign
    /\ log = << >>
    /\ ub = FALSE
    /\ call = NoCall
    /\ newmark = NoIntegrator

NextKernel == \E vol \in BOOLEAN, r \in 0..MaxR : EvalKernel(vol, r)

SpecKernel == InitKernel /\ [][NextKernel]_vars

(***************************************************************************)
(* The constraint derivation on its own, up to the factorization of M: the *)
(* moments, M, and the rows of L before lu.solve, for every two-point      *)
(* quadrature rule of the bounds in 2D and 3D.  The one kernel center lies *)
(* outside the box that holds the quadrature points.                       *)
(***************************************************************************)
QuadPoints(dim) ==
    IF dim = 2 THEN {<<x, y>> : x \in 0..MaxCoord, y \in 0..MaxCoord}
    ELSE {<<x, y, z>> : x \in 0..MaxCoord, y \in 0..MaxCoord, z \in 0..MaxCoord}

QuadRules(dim) ==
    {[points |-> <<p1, p2>>, weights |-> <<w1, 1>>] :
        p1 \in QuadPoints(dim), p2 \in QuadPoints(dim), w1 \in 1..MaxWeight}

OutsideCenter(dim) == << [a \in 1..dim |-> MaxCoord + 2] \o << >> >>

InitConstraints ==
    /\ build = "release"
    /\ \E dim \in {2, 3} : \E q \in QuadRules(dim) :
          /\ centers_ = OutsideCenter(dim)
          /\ args = [samples |-> IF dim = 2 THEN Colloc2 ELSE Colloc3,
                     quadr |-> q, rhs |-> Rhs1,
                     lbi |-> IF dim = 2 THEN << <<1, 0, 2, 0, 1>> >> ELSE Lbi9,
                     with_constraints |-> TRUE]
    /\ ldlt_info = "Success"
    /\ pc = "new"
    /\ weights_ = << >>
    /\ L = << >>
    /\ b = << >>
    /\ v = << >>
    /\ design = NoDesign
    /\ log = << >>
    /\ ub = FALSE
    /\ call = NoCall
    /\ newmark = NoIntegrator

\* compute_constraints_matrix_2d / _3d from the moments to M and to the
\* blocks of L as assembled before lu.solve.
AssembleConstraints ==
    /\ call = NoCall
    /\ call' = [op |-> "constraints",
                M |-> ConstraintM(centers_, args.quadr),
                Ltilde |-> Ltilde(centers_, args.quadr)]
    /\ UNCHANGED newmark
    /\ UNCHANGED <<build, centers_, args, ldlt_info, pc, weights_, L, b, v,
                   design, log, ub>>

NextConstraints == AssembleConstraints

SpecConstraints == InitConstraints /\ [][NextConstraints]_vars

(***************************************************************************)
(* ImplicitNewmark.  The object is the record newmark: beta_, gamma_, the  *)
(* time step dt and the history x_prev, v_prev, a_prev (vectors of         *)
(* doubles); steps counts the update_quantities calls of the run.          *)
(***************************************************************************)
VScale(c, x) == Vec([i \in 1..Len(x) |-> Mul(c, x[i])])

VDiv(x, c) == Vec([i \in 1..Len(x) |-> Div(x[i], c)])

VAdd(x, y) == Vec([i \in 1..Len(x) |-> Add(x[i], y[i])])

VSub(x, y) == Vec([i \in 1..Len(x) |-> Sub(x[i], y[i])])

\* Accessors of the class and of its base class.
beta(s) == s.beta_

gamma(s) == s.gamma_

dt(s) == s.dt

x_prev(s) == s.x_prev

v_prev(s) == s.v_prev

a_prev(s) == s.a_prev

set_x_prev(s, x) == [s EXCEPT !.x_prev = x]

set_v_prev(s, vel) == [s EXCEPT !.v_prev = vel]

set_a_prev(s, acc) == [s EXCEPT !.a_prev = acc]

\* beta_ = params.at("gamma"); gamma_ = params.at("beta");
set_parameters(s, params) ==
    [s EXCEPT !.beta_ = params.gamma, !.gamma_ = params.beta]

\* x_prev() + dt() * (v_prev() + dt() * (0.5 - beta()) * a_prev())
x_tilde(s) ==
    VAdd(x_prev(s),
         VScale(dt(s),
                VAdd(v_prev(s),
                     VScale(Mul(dt(s), Sub(Frac(1, 2), beta(s))), a_prev(s)))))

\* c / dt() * (x - x_prev()) + (1 - c) * v_prev() + (1 - c / 2) * dt() * a_prev()
compute_velocity(s, x) ==
    LET c == Div(gamma(s), beta(s))
    IN  VAdd(VAdd(VScale(Div(c, dt(s)), VSub(x, x_prev(s))),
                  VScale(Sub(One, c), v_prev(s))),
             VScale(Mul(Sub(One, Div(c, R(2))), dt(s)), a_prev(s)))

\* (v - v_prev() - (1 - gamma()) * dt() * a_prev()) / (gamma() * dt())
compute_acceleration(s, vel) ==
    VDiv(VSub(VSub(vel, v_prev(s)),
              VScale(Mul(Sub(One, gamma(s)), dt(s)), a_prev(s))),
         Mul(gamma(s), dt(s)))

\* beta() * dt() * dt()
acceleration_scaling(s) == Mul(Mul(beta(s), dt(s)), dt(s))

update_quantities_mut(s, x) ==
    LET vel == compute_velocity(s, x)
        s1  == set_v_prev(s, vel)
        s2  == set_a_prev(s1, compute_acceleration(s1, vel))
    IN  set_x_prev(s2, x)

\* v = compute_velocity(x); set_a_prev(compute_acceleration(v));
\* set_v_prev(v); set_x_prev(x);
update_quantities(s, x) ==
    LET vel == compute_velocity(s, x)
        s1  == set_a_prev(s, compute_acceleration(s, vel))
        s2  == set_v_prev(s1, vel)
    IN  set_x_prev(s2, x)

\* The parameter objects handed to set_parameters, the time steps, the
\* positions handed to update_quantities and the history of a new object.
NewmarkParams ==
    {[beta |-> bt, gamma |-> g] : bt \in {Frac(1, 4), Frac(1, 2)},
                                  g \in {Frac(1, 2), One}}

TimeSteps == {Frac(1, 2), One}

Positions == { <<Zero, One>>, <<R(2), R(-1)>> }

InitialHistory ==
    [x_prev |-> <<Zero, Zero>>, v_prev |-> <<One, Zero>>, a_prev |-> <<Zero, R(2)>>]

InitNewmark ==
    /\ build = "release"
    /\ centers_ = << <<0, 0>>, <<4, 0>> >>
    /\ args = [samples |-> Colloc2, quadr |-> Quad2, rhs |-> Rhs2,
               lbi |-> Lbi5, with_constraints |-> FALSE]
    /\ ldlt_info = "Success"
    /\ pc = "new"
    /\ weights_ = << >>
    /\ L = << >>
    /\ b = << >>
    /\ v = << >>
    /\ design = NoDesign
    /\ log = << >>
    /\ ub = FALSE
    /\ call = NoCall
    /\ \E p \in NewmarkParams, h \in TimeSteps :
          newmark = [beta_ |-> p.beta, gamma_ |-> p.gamma, dt |-> h,
                     x_prev |-> InitialHistory.x_prev,
                     v_prev |-> InitialHistory.v_prev,
                     a_prev |-> InitialHistory.a_prev,
                     steps |-> 0]

SetParameters ==
    /\ \E params \in NewmarkParams :
          /\ newmark' = set_parameters(newmark, params)
          /\ call' = [op |-> "set_parameters", params |-> params]
    /\ UNCHANGED <<build, centers_, args, ldlt_info, pc, weights_, L, b, v,
                   design, log, ub>>

UpdateQuantities ==
    /\ newmark.steps < MaxSteps
    /\ \E x \in Positions :
          /\ newmark' = [update_quantities(newmark, x) EXCEPT !.steps = @ + 1]
          /\ call' = [op |-> "update_quantities", x |-> x]
    /\ UNCHANGED <<build, centers_, args, ldlt_info, pc, weights_, L, b, v,
                   design, log, ub>>

\* The const queries x_tilde() and acceleration_scaling().
Predict ==
    /\ call' = [op |-> "x_tilde", val |-> x_tilde(newmark),
                scaling |-> acceleration_scaling(newmark)]
    /\ UNCHANGED <<build, centers_, args, ldlt_info, pc, weights_, L, b, v,
                   design, log, ub, newmark>>

NextNewmark ==
    \/ SetParameters
    \/ UpdateQuantities
    \/ Predict

SpecNewmark == InitNewmark /\ [][NextNewmark]_vars

(***************************************************************************)
(* Properties.                                                             *)
(***************************************************************************)
\* The design-matrix entry of sample i (1-based) in column c (1-based), in
\* the documented column order: kernels, 1, coordinates, mixed products
\* (xy in 2D; xy, yz, zx in 3D), squares.
DesignEntry(centers, samples, i, c) ==
    LET nk == Rows(centers)
        d  == Dim(centers)
        x(a) == R(samples[i][a])
        k  == c - (nk + 1)            \* index among the polynomial columns
    IN  IF c <= nk THEN kernel(is_volume(centers), Norm(samples[i], centers[c]))
        ELSE IF k = 0 THEN One
        ELSE IF k <= d THEN x(k)
        ELSE IF d = 2 THEN (IF k = 3 THEN Mul(x(1), x(2)) ELSE Mul(x(k - 3), x(k - 3)))
        ELSE IF k = 4 THEN Mul(x(1), x(2))
        ELSE IF k = 5 THEN Mul(x(2), x(3))
        ELSE IF k = 6 THEN Mul(x(3), x(1))
        ELSE Mul(x(k - 6), x(k - 6))

\* The term a column belongs to, in the documented order.
DesignTerm(centers, c) ==
    LET nk == Rows(centers)
        d  == Dim(centers)
        k  == c - (nk + 1)
    IN  IF c <= nk THEN "kernel"
        ELSE IF k = 0 THEN "constant"
        ELSE IF k <= d THEN "linear"
        ELSE IF k <= d + (IF d = 2 THEN 1 ELSE 3) THEN "mixed"
        ELSE "quadratic"

\* #kernels + 1 + d + d(d+1)/2 for the instance's centers.
TermCount == Rows(centers_) + 1 + Dim(centers_) + (Dim(centers_) * (Dim(centers_) + 1)) \div 2

\* The constructor has returned and the run is free of undefined behaviour.
Constructed == pc = "constructed" /\ ~ub

DimensionMismatch ==
    \/ Cols(centers_) \notin {2, 3}
    \/ Cols(args.samples) # Cols(centers_)
    \/ Cols(args.quadr.points) # Cols(centers_)

C2_DimensionMismatchFails ==
    (DimensionMismatch /\ pc # "new") =>
        /\ pc \in {"aborted", "crashed"}
        /\ weights_ = << >>

\* C3 (as claimed): with constraints requested and M singular, construction
\* ends in an error; L, t and weights are never computed from that M.
C3_SingularMFails ==
    (args.with_constraints /\ SizesOK /\ pc # "new"
        /\ ~ElementLU.isInvertible) =>
        /\ pc = "aborted"
        /\ weights_ = << >>
        /\ L = << >>

\* C4 (as claimed): on either path, when the factorization reports a
\* numerical issue, the constructed instance has weights and a warning was
\* surfaced.
C4_NumericalIssueWarned ==
    (Constructed /\ ldlt_info = "NumericalIssue") =>
        /\ weights_ # << >>
        /\ log # << >>

\* C5 (as claimed): in the design matrix and in the gradient matrices, the
\* kernel entry of a sample closer than the cutoff to the center is 0 and
\* every entry is finite.
KernelEntriesZero(A, samples) ==
    \A i \in 1..Rows(samples) : \A j \in 1..Rows(centers_) :
        Norm(samples[i], centers_[j]) < KernelCutoff => A[i][j] = Zero

C5_NoNaNAtCenter ==
    /\ design # NoDesign =>
          /\ KernelEntriesZero(design.m.A, design.samples)
          /\ AllFinite(design.m.A)
    /\ call.op = "grad" =>
          \A d \in 1..Len(call.A_prime) :
              /\ KernelEntriesZero(call.A_prime[d].A, call.samples)
              /\ AllFinite(call.A_prime[d].A)

\* C6: below the cutoff kernel and kernel_prime are exactly 0 whatever
\* is_volume is; from the cutoff on, is_volume alone selects 1/r and -1/r^2
\* (3D) or ln r and 1/r (2D).
C6_KernelCutoff ==
    call.op = "kernel" =>
        IF call.r < KernelCutoff
        THEN call.val = Zero /\ call.prime = Zero
        ELSE IF call.is_volume
        THEN /\ Mul(call.val, R(call.r)) = One
             /\ Mul(call.prime, R(call.r * call.r)) = R(-1)
        ELSE /\ call.val = Log(call.r)
             /\ Mul(call.prime, R(call.r)) = One

\* C6 witness: a distance strictly between 0 and the cutoff was evaluated
\* for the 3D kernel.
C6_Witness ==
    /\ call.op = "kernel"
    /\ call.is_volume
    /\ call.r > 0
    /\ call.r < KernelCutoff
    /\ call.prime = Zero

\* C7: the design matrix of every compute_kernels_matrix call has one row
\* per sample and #kernels + 1 + d + d(d+1)/2 columns in the documented
\* order, and every column was written by exactly its own term.
C7_DesignMatrixColumns ==
    design # NoDesign =>
        LET A == design.m.A
        IN  /\ Rows(A) = Rows(design.samples)
            /\ \A i \in 1..Rows(A) : Len(A[i]) = TermCount
            /\ \A i \in 1..Rows(A) : \A c \in 1..TermCount :
                  A[i][c] = DesignEntry(centers_, design.samples, i, c)
            /\ Len(design.m.written) = TermCount
            /\ \A c \in 1..TermCount :
                  design.m.written[c] = {DesignTerm(centers_, c)}

\* C7 witness: the design matrix of a 3D instance at query points.
C7_Witness ==
    /\ call.op = "basis"
    /\ Dim(centers_) = 3
    /\ Cols(design.m.A) = Rows(centers_) + 10
    /\ design.samples \in EvalSamples(3)

\* C8: after a successful construction weights_ has #kernels + 1 + d +
\* d(d+1)/2 rows and one column per basis, as many rows as every design or
\* gradient matrix of a later call has columns; on the constrained path L
\* has #kernels + 1 columns and the solve returned that many unknowns per
\* basis.
C8_WeightsShape ==
    Constructed =>
        /\ Rows(weights_) = TermCount
        /\ \A i \in 1..Rows(weights_) : Len(weights_[i]) = Cols(args.rhs)
        /\ Cols(design.m.A) = Rows(weights_)
        /\ call.op = "grad" =>
              \A d \in 1..Len(call.A_prime) :
                  Cols(call.A_prime[d].A) = Rows(weights_)
        /\ args.with_constraints =>
              /\ Rows(L) = TermCount
              /\ Cols(L) = Rows(centers_) + 1
              /\ Rows(v) = Rows(centers_) + 1
              /\ Cols(v) = Cols(args.rhs)

\* C8 witness: a 3D instance constructed on the constrained path.
C8_Witness ==
    /\ Constructed
    /\ args.with_constraints
    /\ Dim(centers_) = 3
    /\ Rows(weights_) = Rows(centers_) + 10
    /\ call.op = "none"

\* p: the polynomial-coefficient rows of weights_; u: its kernel and
\* constant rows.
PolyRows(W) == BottomRows(W, NumPoly(centers_))

KernelRows(W) == TopRows(W, Rows(centers_) + 1)

\* C9 (as claimed): after construction with constraints, for every basis
\* column, M p = Ltilde u + local_basis_integral^T.
C9_ConstraintsSatisfied ==
    (Constructed /\ args.with_constraints) =>
        MatEq(MatMul(ConstraintM(centers_, args.quadr), PolyRows(weights_)),
              MatAdd(MatMul(Ltilde(centers_, args.quadr), KernelRows(weights_)),
                     Transpose(ToDouble(args.lbi))))

\* The t of the element: zero on the kernel and constant rows, M^-1
\* local_basis_integral^T on the polynomial rows.
ElementT ==
    LET np == NumPoly(centers_)
        sol == MatMul(ElementLU.inverse, Transpose(ToDouble(args.lbi)))
    IN  Mat([i \in 1..TermCount |->
               IF i <= TermCount - np THEN [j \in 1..Cols(args.rhs) |-> Zero]
               ELSE sol[i - (TermCount - np)]])

\* C10: with M invertible, the t that the derivation leaves in weights_ is
\* zero on the kernel and constant rows and solves M x = local_basis_integral^T
\* on the polynomial rows, whatever weights_ held before the call; b and the
\* final weights_ are computed from that same t.
C10_TFromLocalBasisIntegral ==
    (args.with_constraints /\ ~ub /\ pc \in {"derived", "constructed"}
        /\ ElementLU.isInvertible) =>
        LET t == ElementT
            lu == ElementLU
        IN  /\ \A i \in 1..(Rows(centers_) + 1) : \A j \in 1..Cols(t) : t[i][j] = Zero
            /\ MatMul(ConstraintM(centers_, args.quadr), PolyRows(t))
                  = Transpose(ToDouble(args.lbi))
            /\ pc = "derived" =>
                  /\ weights_ = t
                  /\ \A W \in {<< >>, Fill(TermCount, Cols(args.rhs), One)} :
                        ComputeT(TermCount, NumPoly(centers_), Cols(args.rhs),
                                 ToDouble(args.lbi), lu, Zero, W, TRUE) = t
            /\ pc = "constructed" =>
                  /\ b = MatSub(ToDouble(args.rhs),
                                MatMul(compute_kernels_matrix(centers_, args.samples).A, t))
                  /\ weights_ = MatAdd(t, MatMul(L, v))

\* C10 witness: the derivation has run for an element whose local basis
\* integrals are not zero, and left a nonzero t in weights_.
C10_Witness ==
    /\ pc = "derived"
    /\ ElementLU.isInvertible
    /\ weights_ # Fill(Rows(weights_), Cols(weights_), Zero)
    /\ TopRows(weights_, 1) = Fill(1, Cols(weights_), Zero)

\* The moments that the Laplacian term adds to the rows of the squared
\* coefficients: (I_lin, I_mix, I_sqr) of the quadrature rule.
MomentRow(quadr) ==
    IF Cols(quadr.points) = 2
    THEN << I_lin(quadr, 1), I_lin(quadr, 2), I_mix(quadr, 1, 2),
            I_sqr(quadr, 1), I_sqr(quadr, 2) >>
    ELSE << I_lin(quadr, 1), I_lin(quadr, 2), I_lin(quadr, 3),
            I_mix(quadr, 1, 2), I_mix(quadr, 2, 3), I_mix(quadr, 3, 1),
            I_sqr(quadr, 1), I_sqr(quadr, 2), I_sqr(quadr, 3) >>

\* Row i of M belongs to a squared coefficient (the last dim rows).
SquaredRow(quadr, i) == i > Len(MomentRow(quadr)) - Cols(quadr.points)

PlanarIndex == <<1, 2, 4, 7, 8>>

\* A 3D quadrature rule with the z coordinate dropped: the same volume and
\* the same moments of x, y, xy, x^2, y^2.
ProjectXY(quadr) ==
    [points |-> [q \in 1..Rows(quadr.points) |->
                    <<quadr.points[q][1], quadr.points[q][2]>>],
     weights |-> quadr.weights]

\* C13: for every 3D quadrature rule, the 3D M restricted to the rows and
\* columns of the x,y-only coefficients equals, entry by entry, the 2D M of
\* the same volume and moments, and the rows of L before projection that
\* belong to those coefficients equal the 2D rows built from the same
\* kernel integrals (-K_lin, -mixed sum, -2(K_sqr + K_cst), -2 volume).
C13_PlanarBlockAgrees ==
    (call.op = "constraints" /\ Rows(call.M) = 9) =>
        LET M2 == M_2d(ProjectXY(args.quadr))
            L2 == Ltilde_2d(centers_, args.quadr)
        IN  /\ \A a \in 1..5 : \A c \in 1..5 :
                  call.M[PlanarIndex[a]][PlanarIndex[c]] = M2[a][c]
            /\ Cols(call.Ltilde) = Cols(L2)
            /\ \A a \in 1..5 : \A j \in 1..Cols(L2) :
                  call.Ltilde[PlanarIndex[a]][j] = L2[a][j]

\* C13 witness: a 3D rule with nonzero moments of xy and of z, whose
\* derivation has been assembled with a nonzero mixed row of L.
C13_Witness ==
    /\ call.op = "constraints"
    /\ Rows(call.M) = 9
    /\ I_mix(args.quadr, 1, 2) # 0
    /\ I_lin(args.quadr, 3) # 0
    /\ call.Ltilde[4][1] # Zero

\* The exponents of the monomial in polynomial column k (0 is the constant
\* column) of a dim-dimensional design matrix, in the documented order.
Exponents(dim, k) ==
    IF k = 0 THEN [a \in 1..dim |-> 0]
    ELSE IF k <= dim THEN [a \in 1..dim |-> IF a = k THEN 1 ELSE 0]
    ELSE IF dim = 2
    THEN (IF k = 3 THEN <<1, 1>> ELSE [a \in 1..2 |-> IF a = k - 3 THEN 2 ELSE 0])
    ELSE IF k = 4 THEN <<1, 1, 0>>
    ELSE IF k = 5 THEN <<0, 1, 1>>
    ELSE IF k = 6 THEN <<1, 0, 1>>
    ELSE [a \in 1..3 |-> IF a = k - 6 THEN 2 ELSE 0]

Power(x, n) == IF n = 0 THEN 1 ELSE IF n = 1 THEN x ELSE x * x

RECURSIVE MonomialFrom(_, _, _)
MonomialFrom(x, e, a) ==
    IF a > Len(x) THEN 1 ELSE Power(x[a], e[a]) * MonomialFrom(x, e, a + 1)

\* d/dx_axis of the monomial with exponents e, at the point x.
MonomialDerivative(x, e, axis) ==
    IF e[axis] = 0 THEN 0
    ELSE e[axis] * MonomialFrom(x, [e EXCEPT ![axis] = e[axis] - 1], 1)

\* C12: in every grad() call, for every axis and sample, each polynomial
\* column of the gradient matrix is the partial derivative along the axis of
\* the monomial that compute_kernels_matrix holds in the same column
\* (constant -> 0, own linear -> 1, mixed -> the other coordinate, own
\* square -> 2 x), and column d of the result is the axis-d product with
\* the weights, column local_index.
C12_PolynomialGradients ==
    call.op = "grad" =>
        LET nk  == Rows(centers_)
            dim == Dim(centers_)
            A   == compute_kernels_matrix(centers_, call.samples).A
        IN  /\ Len(call.A_prime) = dim
            /\ \A d \in 1..dim : \A i \in 1..Rows(call.samples) :
               \A k \in 0..(dim + (dim * (dim + 1)) \div 2) :
                  /\ A[i][nk + 1 + k]
                        = R(MonomialFrom(call.samples[i], Exponents(dim, k), 1))
                  /\ call.A_prime[d].A[i][nk + 1 + k]
                        = R(MonomialDerivative(call.samples[i], Exponents(dim, k), d))
            /\ \A d \in 1..dim : \A i \in 1..Rows(call.samples) :
                  call.val[i][d]
                     = MatMul(call.A_prime[d].A, weights_)[i][call.local_index + 1]

\* C12 witness: grad() on a 3D instance at a sample whose coordinates are
\* all different and nonzero, on an instance with finite weights.
C12_Witness ==
    /\ call.op = "grad"
    /\ Dim(centers_) = 3
    /\ \E i \in 1..Rows(call.samples) :
          /\ call.samples[i][1] # call.samples[i][2]
          /\ call.samples[i][2] # call.samples[i][3]
          /\ call.samples[i][1] * call.samples[i][2] * call.samples[i][3] # 0
    /\ AllFinite(weights_)

\* C14: every update_quantities(x) step leaves x_prev = x, v_prev =
\* compute_velocity(x) evaluated on the history before the call, and a_prev
\* = compute_acceleration(that velocity) evaluated on the v_prev and a_prev
\* before the call; it changes nothing else of the object.
C14_UpdateReadsOldHistory ==
    [][newmark'.steps = newmark.steps + 1 =>
          LET vel == compute_velocity(newmark, call'.x)
          IN  /\ call'.op = "update_quantities"
              /\ x_prev(newmark') = call'.x
              /\ v_prev(newmark') = vel
              /\ a_prev(newmark') = compute_acceleration(newmark, vel)
              /\ beta(newmark') = beta(newmark)
              /\ gamma(newmark') = gamma(newmark)
              /\ dt(newmark') = dt(newmark)]_vars

\* C14 witness: a second update_quantities call has run, on a history whose
\* velocity and acceleration the first call had replaced with new values.
C14_Witness ==
    /\ call.op = "update_quantities"
    /\ newmark.steps = 2
    /\ x_prev(newmark) = call.x
    /\ v_prev(newmark) # InitialHistory.v_prev
    /\ a_prev(newmark) # InitialHistory.a_prev
    /\ a_prev(newmark) # <<Zero, Zero>>

\* C15 (as claimed): after set_parameters(params), beta() is params["beta"]
\* and gamma() is params["gamma"], and acceleration_scaling() is
\* params["beta"] dt^2.
C15_ParametersByName ==
    call.op = "set_parameters" =>
        /\ beta(newmark) = call.params.beta
        /\ gamma(newmark) = call.params.gamma
        /\ acceleration_scaling(newmark)
              = Mul(Mul(call.params.beta, dt(newmark)), dt(newmark))

=============================================================================
